---- MODULE Spec2Model ----
(***************************************************************************)
(* Seat reservation of cinema/serializers.py: the field validation of the  *)
(* nested ticket serializers, OrderCreateSerializer.validate (empty,        *)
(* duplicate and conflict checks) and OrderCreateSerializer.create (the     *)
(* atomic insert), run by OrderViewSet's create action for concurrent       *)
(* requests, together with the two read-side serializer methods.            *)
(*                                                                         *)
(* A request is served in two steps: IsValid (serializer.is_valid: reads    *)
(* the Ticket table, writes nothing) and OrderCreateSerializer_create (one  *)
(* transaction.atomic block).  Other requests may run between the two.      *)
(***************************************************************************)
EXTENDS Integers, Sequences, FiniteSets, TLC

VARIABLES
    orders,     \* the Order table: orders[i] is the user of the order with id i
    tickets,    \* the Ticket table, rows in insertion order
    call        \* per user, the request being served: position, payload, outcome

vars == <<orders, tickets, call>>

\* Longest ticket list a request carries.
MaxTickets == 2

(***************************************************************************)
(* Reference data: two sessions in two halls of different shape.           *)
(***************************************************************************)
Sessions == {1, 2}

\* A movie_session primary key of the payload that resolves to no row.
UnknownSession == 3

cinema_hall(ms) ==
    IF ms = 1 THEN [rows |-> 1, seats_in_row |-> 2]
              ELSE [rows |-> 2, seats_in_row |-> 1]

capacity(hall) == hall.rows * hall.seats_in_row

\* Coordinates a payload may carry: from 0 up to the largest dimension of any
\* hall, so that each bound of each comparison is crossed in some hall.
Coords ==
    UNION {(0 .. cinema_hall(ms).rows) \cup (0 .. cinema_hall(ms).seats_in_row) :
              ms \in Sessions}

\* Users issuing requests, and the customer of the orders already in the store.
Users == {"u1", "u2"}

PriorUser == "u0"

(***************************************************************************)
(* Payload entries and requests.                                           *)
(***************************************************************************)
Entry(ms, r, s) == [movie_session |-> ms, row |-> r, seat |-> s]

Entries ==
    {Entry(ms, r, s) : ms \in Sessions \cup {UnknownSession}, r \in Coords, s \in Coords}

InGrid(e) ==
    /\ e.movie_session \in Sessions
    /\ 1 <= e.row /\ e.row <= cinema_hall(e.movie_session).rows
    /\ 1 <= e.seat /\ e.seat <= cinema_hall(e.movie_session).seats_in_row

GridEntries == {e \in Entries : InGrid(e)}

\* The entries the concurrent specification draws from: every seat of every
\* hall, and for every hall the first row past its last one.
RaceEntries ==
    GridEntries \cup {Entry(ms, cinema_hall(ms).rows + 1, 1) : ms \in Sessions}

SeqsUpTo(S, n) == UNION {[1 .. k -> S] : k \in 0 .. n}

\* initial_data: the "tickets" key may be absent.
Payloads(E) ==
    {[has_tickets |-> TRUE, tickets |-> t] : t \in SeqsUpTo(E, MaxTickets)}
        \cup {[has_tickets |-> FALSE, tickets |-> <<>>]}

NoPayload == [has_tickets |-> FALSE, tickets |-> <<>>]

(***************************************************************************)
(* Outcomes of a request.                                                  *)
(***************************************************************************)
NoErrors == [movie_session |-> FALSE, row |-> <<>>, seat |-> <<>>]

Outcome(kind, stage) ==
    [kind |-> kind, stage |-> stage, errors |-> <<>>, duplicates |-> <<>>,
     taken |-> {}, order |-> 0]

NoOutcome == Outcome("none", "none")

(***************************************************************************)
(* Field validation of one ticket (TicketCreateSerializer).                *)
(***************************************************************************)
\* validate with the seat compared against the number of rows.
ValidateSeatAgainstRows(attrs) ==
    LET hall == cinema_hall(attrs.movie_session)
        row  == attrs.row
        seat == attrs.seat
    IN  [movie_session |-> FALSE,
         row  |-> IF row < 1 \/ row > hall.rows
                  THEN <<1, hall.rows>> ELSE <<>>,
         seat |-> IF seat < 1 \/ seat > hall.rows
                  THEN <<1, hall.seats_in_row>> ELSE <<>>]

\* validate with the upper row limit off by one.
ValidateRowOffByOne(attrs) ==
    LET hall == cinema_hall(attrs.movie_session)
        row  == attrs.row
        seat == attrs.seat
    IN  [movie_session |-> FALSE,
         row  |-> IF row < 1 \/ row > hall.rows + 1
                  THEN <<1, hall.rows>> ELSE <<>>,
         seat |-> IF seat < 1 \/ seat > hall.seats_in_row
                  THEN <<1, hall.seats_in_row>> ELSE <<>>]

\* validate: a range message is kept as the range <<1, n>> it names.
TicketCreateSerializer_validate(attrs) ==
    LET hall == cinema_hall(attrs.movie_session)
        row  == attrs.row
        seat == attrs.seat
    IN  [movie_session |-> FALSE,
         row  |-> IF row < 1 \/ row > hall.rows
                  THEN <<1, hall.rows>> ELSE <<>>,
         seat |-> IF seat < 1 \/ seat > hall.seats_in_row
                  THEN <<1, hall.seats_in_row>> ELSE <<>>]

\* run_validation of one list item: the primary key is resolved first and
\* validate runs only when every field passed.
TicketCreateSerializer_run_validation(item) ==
    IF item.movie_session \notin Sessions
    THEN [movie_session |-> TRUE, row |-> <<>>, seat |-> <<>>]
    ELSE TicketCreateSerializer_validate(item)

(***************************************************************************)
(* OrderCreateSerializer.validate.                                         *)
(***************************************************************************)
SameSeat(a, b) ==
    /\ a.movie_session = b.movie_session
    /\ a.row = b.row
    /\ a.seat = b.seat

\* The entry at position i is appended to duplicates iff its (row, seat) is
\* already in the seen set of its session.
IsDuplicateAt(tp, i) == \E j \in 1 .. (i - 1) : SameSeat(tp[j], tp[i])

RECURSIVE DuplicatesFrom(_, _)
DuplicatesFrom(tp, i) ==
    IF i > Len(tp) THEN <<>>
    ELSE (IF IsDuplicateAt(tp, i) THEN <<tp[i]>> ELSE <<>>)
             \o DuplicatesFrom(tp, i + 1)

Duplicates(tp) == DuplicatesFrom(tp, 1)

\* by_session: the keys in insertion order and the (row, seat) set of a key.
RECURSIVE SessionKeysFrom(_, _)
SessionKeysFrom(tp, i) ==
    IF i > Len(tp) THEN <<>>
    ELSE (IF \E j \in 1 .. (i - 1) : tp[j].movie_session = tp[i].movie_session
          THEN <<>> ELSE <<tp[i].movie_session>>)
             \o SessionKeysFrom(tp, i + 1)

SessionKeys(tp) == SessionKeysFrom(tp, 1)

Requested(tp, ms) ==
    {<<tp[i].row, tp[i].seat>> : i \in {k \in 1 .. Len(tp) : tp[k].movie_session = ms}}

\* Ticket.objects.filter(movie_session_id=ms, row__in=rows).values_list("row", "seat")
Existing(table, ms, rows) ==
    {<<table[i].row, table[i].seat>> :
        i \in {k \in 1 .. Len(table) :
                  table[k].movie_session = ms /\ table[k].row \in rows}}

GroupConflicts(tp, ms, table) ==
    LET requested == Requested(tp, ms)
        existing  == Existing(table, ms, {p[1] : p \in requested})
    IN  {Entry(ms, p[1], p[2]) : p \in {q \in requested : q \in existing}}

\* The loop over by_session.items(): its body ends in "return attrs", so the
\* first key decides; with no key at all the function falls off the end.
ConflictCheck(tp, table) ==
    LET keys == SessionKeys(tp)
    IN  IF keys = <<>>
        THEN Outcome("no_value", "validate")
        ELSE LET conflicts == GroupConflicts(tp, Head(keys), table)
             IN  IF conflicts # {}
                 THEN [Outcome("taken", "validate") EXCEPT !.taken = conflicts]
                 ELSE Outcome("valid", "validate")

\* The two checks in the other order: conflicts first, then duplicates.
ConflictsBeforeDuplicates(tp, table) ==
    LET checked    == ConflictCheck(tp, table)
        duplicates == Duplicates(tp)
    IN  IF checked.kind = "taken" THEN checked
        ELSE IF duplicates # <<>>
             THEN [Outcome("duplicates", "validate") EXCEPT !.duplicates = duplicates]
             ELSE checked

DuplicateCheck(tp, table) ==
    LET duplicates == Duplicates(tp)
    IN  IF duplicates # <<>>
        THEN [Outcome("duplicates", "validate") EXCEPT !.duplicates = duplicates]
        ELSE ConflictCheck(tp, table)

\* validate without the emptiness test.
ValidateWithoutEmptyTest(data, table) ==
    DuplicateCheck(IF data.has_tickets THEN data.tickets ELSE <<>>, table)

OrderCreateSerializer_validate(data, table) ==
    LET tickets_payload == IF data.has_tickets THEN data.tickets ELSE <<>>
    IN  IF tickets_payload = <<>>
        THEN Outcome("empty", "validate")
        ELSE DuplicateCheck(tickets_payload, table)

(***************************************************************************)
(* serializer.is_valid: the declared fields first, then validate.          *)
(***************************************************************************)
FieldErrors(tp) == [i \in 1 .. Len(tp) |-> TicketCreateSerializer_run_validation(tp[i])]

\* An absent "tickets" key fails the required nested field ("This field is
\* required.") before validate runs: the same kind of rejection as the empty
\* list, raised at the field stage.
run_validation(data, table) ==
    IF ~data.has_tickets
    THEN Outcome("empty", "field")
    ELSE LET errors == FieldErrors(data.tickets)
         IN  IF \E i \in 1 .. Len(errors) : errors[i] # NoErrors
             THEN [Outcome("invalid", "field") EXCEPT !.errors = errors]
             ELSE OrderCreateSerializer_validate(data, table)

(***************************************************************************)
(* The store.                                                              *)
(***************************************************************************)
\* A Ticket table without the uniqueness constraint.
NoUniqueConstraint(table) == FALSE

\* The uniqueness constraint of the Ticket table on (movie_session, row, seat).
UniqueViolation(table) ==
    \E i, j \in 1 .. Len(table) : i # j /\ SameSeat(table[i], table[j])

NewTickets(order, tickets_data) ==
    [i \in 1 .. Len(tickets_data) |->
        [order |-> order,
         row |-> tickets_data[i].row,
         seat |-> tickets_data[i].seat,
         movie_session |-> tickets_data[i].movie_session]]

(***************************************************************************)
(* Read side.                                                              *)
(***************************************************************************)
RECURSIVE SessionTickets(_, _)
SessionTickets(table, ms) ==
    IF table = <<>> THEN <<>>
    ELSE (IF Head(table).movie_session = ms THEN <<Head(table)>> ELSE <<>>)
             \o SessionTickets(Tail(table), ms)

get_taken_places(table, ms) ==
    LET ts == SessionTickets(table, ms)
    IN  [i \in 1 .. Len(ts) |-> [row |-> ts[i].row, seat |-> ts[i].seat]]

\* get_tickets_available counting the tickets of every session.
AvailableCountingAllTickets(table, ms) ==
    LET total_capacity == capacity(cinema_hall(ms))
        taken == Len(table)
    IN  IF total_capacity - taken > 0 THEN total_capacity - taken ELSE 0

get_tickets_available(table, ms) ==
    LET total_capacity == capacity(cinema_hall(ms))
        taken == Len(SessionTickets(table, ms))
    IN  IF total_capacity - taken > 0 THEN total_capacity - taken ELSE 0

(***************************************************************************)
(* Initial states: any set of seats already sold, each by an order of its  *)
(* own placed earlier by PriorUser; no request in progress.                *)
(***************************************************************************)
SeatList ==
    <<Entry(1, 1, 1), Entry(1, 1, 2), Entry(2, 1, 1), Entry(2, 2, 1)>>

RECURSIVE SoldFrom(_, _, _)
SoldFrom(sold, i, n) ==
    IF i > Len(SeatList) THEN <<>>
    ELSE IF i \in sold
         THEN NewTickets(n + 1, <<SeatList[i]>>) \o SoldFrom(sold, i + 1, n + 1)
         ELSE SoldFrom(sold, i + 1, n)

Init ==
    /\ \E sold \in SUBSET (1 .. Len(SeatList)) :
          /\ tickets = SoldFrom(sold, 1, 0)
          /\ orders = [i \in 1 .. Cardinality(sold) |-> PriorUser]
    /\ call = [u \in Users |-> [pc |-> "idle", data |-> NoPayload, res |-> NoOutcome]]

(***************************************************************************)
(* Actions.                                                                *)
(***************************************************************************)
\* OrderViewSet create, first half: serializer.is_valid(raise_exception=True)
\* on a payload drawn from D.
IsValid(u, D) ==
    /\ call[u].pc = "idle"
    /\ \E data \in D :
          LET res == run_validation(data, tickets)
          IN  call' = [call EXCEPT ![u] =
                          [pc |-> IF res.kind = "valid" THEN "validated" ELSE "done",
                           data |-> data,
                           res |-> res]]
    /\ UNCHANGED <<orders, tickets>>

\* create without the atomic block: the order row stays when bulk_create fails.
CreateWithoutAtomic(u) ==
    /\ call[u].pc = "validated"
    /\ LET tickets_data == call[u].data.tickets
           order == Len(orders) + 1
           table == tickets \o NewTickets(order, tickets_data)
       IN  /\ orders' = Append(orders, u)
           /\ IF UniqueViolation(table)
              THEN /\ UNCHANGED tickets
                   /\ call' = [call EXCEPT ![u].pc = "done",
                                           ![u].res = Outcome("integrity_error", "create")]
              ELSE /\ tickets' = table
                   /\ call' = [call EXCEPT ![u].pc = "done",
                                           ![u].res = [Outcome("created", "create")
                                                          EXCEPT !.order = order]]

\* OrderViewSet create, second half: serializer.save() -> create.  The block
\* under transaction.atomic is one step: a failed bulk_create undoes the order.
OrderCreateSerializer_create(u) ==
    /\ call[u].pc = "validated"
    /\ LET tickets_data == call[u].data.tickets
           order == Len(orders) + 1
           table == tickets \o NewTickets(order, tickets_data)
       IN  IF UniqueViolation(table)
           THEN /\ UNCHANGED <<orders, tickets>>
                /\ call' = [call EXCEPT ![u].pc = "done",
                                        ![u].res = Outcome("integrity_error", "create")]
           ELSE /\ orders' = Append(orders, u)
                /\ tickets' = table
                /\ call' = [call EXCEPT ![u].pc = "done",
                                        ![u].res = [Outcome("created", "create")
                                                       EXCEPT !.order = order]]

\* Concurrent requests, one per user.
Next ==
    \E u \in Users :
        \/ IsValid(u, Payloads(RaceEntries))
        \/ OrderCreateSerializer_create(u)

Spec == Init /\ [][Next]_vars

\* One request, any payload.
NextCall ==
    \/ IsValid("u1", Payloads(Entries))
    \/ OrderCreateSerializer_create("u1")

SpecCall == Init /\ [][NextCall]_vars

(***************************************************************************)
(* Vocabulary of the properties.                                           *)
(***************************************************************************)
Done(u) == call[u].pc = "done"

Kind(u) == call[u].res.kind

Req(u) == call[u].data.tickets

\* The ticket rows holding the seat of entry e.
Holders(e) == {i \in 1 .. Len(tickets) : SameSeat(tickets[i], e)}

Held(e) == Holders(e) # {}

HeldByPrior(e) == \E i \in Holders(e) : orders[tickets[i].order] = PriorUser

Sold(ms) == Cardinality({i \in 1 .. Len(tickets) : tickets[i].movie_session = ms})

AllInGrid(tp) == \A i \in 1 .. Len(tp) : InGrid(tp[i])

HasRepeat(tp) == \E i, j \in 1 .. Len(tp) : i < j /\ SameSeat(tp[i], tp[j])

\* The store holds only what the earlier customer bought: one order per ticket.
OnlyPriorOrders ==
    /\ \A o \in 1 .. Len(orders) : orders[o] = PriorUser
    /\ Len(tickets) = Len(orders)

(***************************************************************************)
(* C1: in every reachable state no two persisted tickets have the same     *)
(* (movie_session, row, seat), whatever requests the users interleave.     *)
(***************************************************************************)
C1_NoDoubleBooking ==
    \A i, j \in 1 .. Len(tickets) :
        i # j =>
            \/ tickets[i].movie_session # tickets[j].movie_session
            \/ tickets[i].row # tickets[j].row
            \/ tickets[i].seat # tickets[j].seat

\* Two users asked for the same seats, both passed validation, one insert
\* committed and the other was refused by the store.
C1_Witness ==
    \E u, v \in Users :
        /\ u # v /\ Done(u) /\ Done(v)
        /\ Req(u) = Req(v)
        /\ Kind(u) = "created" /\ Kind(v) = "integrity_error"

(***************************************************************************)
(* C2: two requests for the identical seat, free before either of them,    *)
(* end with one order created and the other rejected as taken, under every *)
(* interleaving of their validation and their insert.                      *)
(***************************************************************************)
C2_OneCreatedOtherTaken ==
    \A u, v \in Users :
        ( /\ u # v /\ Done(u) /\ Done(v)
          /\ call[u].data.has_tickets
          /\ Req(u) = Req(v)
          /\ Len(Req(u)) = 1
          /\ InGrid(Req(u)[1])
          /\ ~HeldByPrior(Req(u)[1]) )
        => \/ Kind(u) = "created" /\ Kind(v) = "taken"
           \/ Kind(v) = "created" /\ Kind(u) = "taken"

(***************************************************************************)
(* C3: a request is all or nothing.  Every step either leaves the Order    *)
(* and Ticket tables unchanged or adds exactly one order of the requesting *)
(* user and, owned by it, exactly one ticket per requested entry; the      *)
(* tables change iff the request ends as created; and no order is ever     *)
(* without tickets.                                                        *)
(***************************************************************************)
NoEmptyOrder ==
    \A o \in 1 .. Len(orders) : \E i \in 1 .. Len(tickets) : tickets[i].order = o

CommitsWholeOrder(u) ==
    LET tp == Req(u)
        n  == Len(tickets)
    IN  /\ Len(tp) >= 1
        /\ orders' = Append(orders, u)
        /\ Len(tickets') = n + Len(tp)
        /\ \A i \in 1 .. n : tickets'[i] = tickets[i]
        /\ \A i \in 1 .. Len(tp) :
              /\ tickets'[n + i].order = Len(orders')
              /\ SameSeat(tickets'[n + i], tp[i])

AllOrNothingStep ==
    \A u \in Users :
        call'[u] # call[u] =>
            /\ \/ UNCHANGED <<orders, tickets>>
               \/ CommitsWholeOrder(u)
            /\ call'[u].res.kind = "created" <=> <<orders, tickets>>' # <<orders, tickets>>
            /\ NoEmptyOrder'

C3_AllOrNothing == []NoEmptyOrder /\ [][AllOrNothingStep]_vars

\* A two-ticket request lost at the insert: nothing of it is in the store.
C3_Witness ==
    \E u \in Users :
        /\ Done(u) /\ Kind(u) = "integrity_error"
        /\ Len(Req(u)) = 2
        /\ \A o \in 1 .. Len(orders) : orders[o] # u

(***************************************************************************)
(* C4: served alone, a request with valid, pairwise different seats of     *)
(* which any one, in any session of the request, is held by a ticket of an *)
(* earlier order ends rejected as taken, and the store is as before.       *)
(***************************************************************************)
C4_HeldSeatIsTaken ==
    \A u \in Users :
        ( /\ Done(u)
          /\ call[u].data.has_tickets
          /\ AllInGrid(Req(u))
          /\ ~HasRepeat(Req(u))
          /\ \E i \in 1 .. Len(Req(u)) : HeldByPrior(Req(u)[i]) )
        => Kind(u) = "taken" /\ OnlyPriorOrders

RowInRange(e) == 1 <= e.row /\ e.row <= cinema_hall(e.movie_session).rows

SeatInRange(e) == 1 <= e.seat /\ e.seat <= cinema_hall(e.movie_session).seats_in_row

RangeErrors(u, i) ==
    LET e == Req(u)[i]
        hall == cinema_hall(e.movie_session)
        err == call[u].res.errors[i]
    IN  /\ err.row = IF RowInRange(e) THEN <<>> ELSE <<1, hall.rows>>
        /\ err.seat = IF SeatInRange(e) THEN <<>> ELSE <<1, hall.seats_in_row>>

C6_OutOfBounds ==
    /\ \A u \in Users :
          (call[u].pc # "idle" /\ call[u].data.has_tickets) =>
              LET known == {i \in 1 .. Len(Req(u)) : Req(u)[i].movie_session \in Sessions}
              IN  /\ (\E i \in known : ~InGrid(Req(u)[i])) =>
                          /\ Done(u)
                          /\ Kind(u) = "invalid"
                          /\ OnlyPriorOrders
                  /\ Kind(u) = "invalid" =>
                          \A i \in known :
                              /\ RangeErrors(u, i)
                              /\ call[u].res.errors[i] = NoErrors <=> InGrid(Req(u)[i])
                  /\ Kind(u) # "invalid" => AllInGrid(Req(u))
    /\ AllInGrid(tickets)

\* A row past the last row of hall 1 and a seat past the last seat of hall 2,
\* each reported with the range of its own hall.
C6_Witness ==
    \E u \in Users :
        /\ Done(u) /\ Kind(u) = "invalid"
        /\ Len(Req(u)) = 2
        /\ call[u].res.errors[1].row = <<1, 1>> /\ call[u].res.errors[1].seat = <<>>
        /\ call[u].res.errors[2].seat = <<1, 1>> /\ call[u].res.errors[2].row = <<>>
        /\ Req(u)[1].row = 2 /\ Req(u)[2].seat = 2

(***************************************************************************)
(* C7: a request with an empty or absent ticket list is rejected with the  *)
(* empty error in every store state and leaves orders and tickets as they  *)
(* were.                                                                   *)
(***************************************************************************)
C7_EmptyRejected ==
    \A u \in Users :
        (call[u].pc # "idle" /\ (~call[u].data.has_tickets \/ Req(u) = <<>>))
        => /\ Done(u)
           /\ Kind(u) = "empty"
           /\ OnlyPriorOrders

\* An empty list sent while seats are sold.
C7_Witness ==
    \E u \in Users :
        /\ Done(u) /\ Kind(u) = "empty"
        /\ call[u].data.has_tickets /\ Req(u) = <<>>
        /\ tickets # <<>>

(***************************************************************************)
(* C8: the insert of a created order lowers get_tickets_available of each  *)
(* session by exactly the number of tickets requested for it, and          *)
(* get_taken_places of that session then holds every requested (row,       *)
(* seat); for a session the request does not name both are unchanged.      *)
(***************************************************************************)
RequestedFor(tp, ms) == {i \in 1 .. Len(tp) : tp[i].movie_session = ms}

CreatedStepReadSide(u) ==
    \A ms \in Sessions :
        LET idx    == RequestedFor(Req(u), ms)
            before == get_taken_places(tickets, ms)
            after  == get_taken_places(tickets', ms)
        IN  /\ get_tickets_available(tickets', ms)
                  = get_tickets_available(tickets, ms) - Cardinality(idx)
            /\ \A i \in idx :
                  \E j \in 1 .. Len(after) :
                      after[j] = [row |-> Req(u)[i].row, seat |-> Req(u)[i].seat]
            /\ idx = {} => after = before

C8_ReadSideAfterCreate ==
    [][\A u \in Users :
          (call[u].pc = "validated" /\ call'[u].res.kind = "created")
              => CreatedStepReadSide(u)]_vars

\* An order of two tickets for one session was created while the other
\* session had tickets of its own.
C8_Witness ==
    \E u \in Users :
        /\ Done(u) /\ Kind(u) = "created"
        /\ Len(Req(u)) = 2
        /\ Req(u)[1].movie_session = Req(u)[2].movie_session
        /\ \E ms \in Sessions : ms # Req(u)[1].movie_session /\ Sold(ms) > 0

(***************************************************************************)
(* C9: the conflict check looks at every session group before it decides:  *)
(* a request passes validation only if none of its seats is persisted, and *)
(* a taken rejection lists exactly the requested seats that are persisted. *)
(***************************************************************************)
C9_ConflictsOfAllGroups ==
    \A u \in Users :
        LET conflicts == {Req(u)[i] : i \in {k \in 1 .. Len(Req(u)) : HeldByPrior(Req(u)[k])}}
        IN  /\ call[u].pc = "validated" => conflicts = {}
            /\ (Done(u) /\ Kind(u) = "taken") => call[u].res.taken = conflicts

(***************************************************************************)
(* C10: in every reachable state, for every session, the persisted tickets *)
(* number at most rows * seats_in_row of its hall, so get_tickets_available *)
(* equals that product minus the number sold and is never negative.        *)
(***************************************************************************)
C10_NeverOversold ==
    \A ms \in Sessions :
        LET hall == cinema_hall(ms)
        IN  /\ Sold(ms) <= hall.rows * hall.seats_in_row
            /\ get_tickets_available(tickets, ms) = hall.rows * hall.seats_in_row - Sold(ms)
            /\ get_tickets_available(tickets, ms) >= 0

\* A session is sold out, the last seat by an order created here, and a
\* request for a row past its hall was turned away.
C10_Witness ==
    \E ms \in Sessions, u, v \in Users :
        /\ Sold(ms) = capacity(cinema_hall(ms))
        /\ Done(u) /\ Kind(u) = "created"
        /\ \E i \in 1 .. Len(Req(u)) : Req(u)[i].movie_session = ms
        /\ Done(v) /\ Kind(v) = "invalid"
        /\ \E i \in 1 .. Len(Req(v)) :
              Req(v)[i].movie_session = ms /\ Req(v)[i].row > cinema_hall(ms).rows
====
